---- MODULE Spec2Model ----
(***************************************************************************)
(* Instruction-aware embedding text preparation                            *)
(* (cognee/infrastructure/databases/vector/embeddings/                     *)
(* instruction_manager.py).                                                *)
(*                                                                         *)
(* A Python str is modelled as the sequence of its characters, each        *)
(* character a one-character string, so that strip(), lower(), the         *)
(* dictionary lookup and the prefix concatenation are computed on the      *)
(* characters.  Python's None is the one-element tuple <<"None">>, which   *)
(* is not a str because "None" is not a character.                         *)
(***************************************************************************)
EXTENDS Integers, Sequences, FiniteSets, TLC

None == <<"None">>

\* contextvars' Token.MISSING: the variable had no value in the Context.
MISSING == <<"MISSING">>

Key_nl2code ==
    <<"n","l","2","c","o","d","e">>

Key_qa ==
    <<"q","a">>

Key_code2code ==
    <<"c","o","d","e","2","c","o","d","e">>

Key_code2nl ==
    <<"c","o","d","e","2","n","l">>

Key_code2completion ==
    <<"c","o","d","e","2","c","o","m","p","l","e","t","i","o","n">>

\* The five keys of INSTRUCTION_CONFIG.
InstructionKeys ==
    {Key_nl2code, Key_qa, Key_code2code, Key_code2nl, Key_code2completion}

\* INSTRUCTION_CONFIG: instruction type -> {query prefix, passage prefix}.
INSTRUCTION_CONFIG ==
    (Key_nl2code :> [query |->
          <<"F","i","n","d"," ","t","h","e"," ","m","o","s","t"," ","r","e",
            "l","e","v","a","n","t"," ","c","o","d","e"," ","s","n","i","p",
            "p","e","t"," ","g","i","v","e","n"," ","t","h","e"," ","f","o",
            "l","l","o","w","i","n","g"," ","q","u","e","r","y",":","\n">>,
        passage |->
          <<"C","a","n","d","i","d","a","t","e"," ","c","o","d","e"," ","s",
            "n","i","p","p","e","t",":","\n">>]) @@
    (Key_qa :> [query |->
          <<"F","i","n","d"," ","t","h","e"," ","m","o","s","t"," ","r","e",
            "l","e","v","a","n","t"," ","a","n","s","w","e","r"," ","g","i",
            "v","e","n"," ","t","h","e"," ","f","o","l","l","o","w","i","n",
            "g"," ","q","u","e","s","t","i","o","n",":","\n">>,
        passage |->
          <<"C","a","n","d","i","d","a","t","e"," ","a","n","s","w","e","r",
            ":","\n">>]) @@
    (Key_code2code :> [query |->
          <<"F","i","n","d"," ","a","n"," ","e","q","u","i","v","a","l","e",
            "n","t"," ","c","o","d","e"," ","s","n","i","p","p","e","t"," ",
            "g","i","v","e","n"," ","t","h","e"," ","f","o","l","l","o","w",
            "i","n","g"," ","c","o","d","e"," ","s","n","i","p","p","e","t",
            ":","\n">>,
        passage |->
          <<"C","a","n","d","i","d","a","t","e"," ","c","o","d","e"," ","s",
            "n","i","p","p","e","t",":","\n">>]) @@
    (Key_code2nl :> [query |->
          <<"F","i","n","d"," ","t","h","e"," ","m","o","s","t"," ","r","e",
            "l","e","v","a","n","t"," ","c","o","m","m","e","n","t"," ","g",
            "i","v","e","n"," ","t","h","e"," ","f","o","l","l","o","w","i",
            "n","g"," ","c","o","d","e"," ","s","n","i","p","p","e","t",":",
            "\n">>,
        passage |->
          <<"C","a","n","d","i","d","a","t","e"," ","c","o","m","m","e","n",
            "t",":","\n">>]) @@
    (Key_code2completion :> [query |->
          <<"F","i","n","d"," ","t","h","e"," ","m","o","s","t"," ","r","e",
            "l","e","v","a","n","t"," ","c","o","m","p","l","e","t","i","o",
            "n"," ","g","i","v","e","n"," ","t","h","e"," ","f","o","l","l",
            "o","w","i","n","g"," ","s","t","a","r","t"," ","o","f"," ","c",
            "o","d","e"," ","s","n","i","p","p","e","t",":","\n">>,
        passage |->
          <<"C","a","n","d","i","d","a","t","e"," ","c","o","m","p","l","e",
            "t","i","o","n",":","\n">>])

\* ---------------------------------------------------------------- str

UpperChars ==
    <<"A","B","C","D","E","F","G","H","I","J","K","L","M",
      "N","O","P","Q","R","S","T","U","V","W","X","Y","Z">>

LowerChars ==
    <<"a","b","c","d","e","f","g","h","i","j","k","l","m",
      "n","o","p","q","r","s","t","u","v","w","x","y","z">>

\* The whitespace characters str.strip() removes (the ASCII ones used here).
Whitespace ==
    {" ", "\t", "\n", "\r"}

\* str.lower() on one character.
LowerChar(c) ==
    IF \E i \in 1..Len(UpperChars) : UpperChars[i] = c
    THEN LowerChars[CHOOSE i \in 1..Len(UpperChars) : UpperChars[i] = c]
    ELSE c

\* str.lower()
Lower(s) ==
    [i \in 1..Len(s) |-> LowerChar(s[i])]

\* str.strip(): drop leading and trailing whitespace, keep inner whitespace.
Strip(s) ==
    LET keep == {i \in 1..Len(s) : s[i] \notin Whitespace}
    IN  IF keep = {} THEN <<>>
        ELSE SubSeq(s, CHOOSE i \in keep : \A j \in keep : i <= j,
                       CHOOSE i \in keep : \A j \in keep : i >= j)

\* Python truthiness of an Optional[str]: None and "" are falsy.
Truthy(s) ==
    s # None /\ s # <<>>

\* The characters in code point order, which is how Python compares str.
CodeOrder ==
    <<"\t", "\n", "\r", " ",
      "0","1","2","3","4","5","6","7","8","9">> \o UpperChars \o LowerChars

CharRank(c) ==
    CHOOSE i \in 1..Len(CodeOrder) : CodeOrder[i] = c

\* a < b on str: lexicographic by code point.
RECURSIVE StrLess(_, _)
StrLess(a, b) ==
    IF a = <<>> THEN b # <<>>
    ELSE IF b = <<>> THEN FALSE
    ELSE IF Head(a) = Head(b) THEN StrLess(Tail(a), Tail(b))
    ELSE CharRank(Head(a)) < CharRank(Head(b))

\* sorted(S) for a set of distinct str.
RECURSIVE Sorted(_)
Sorted(S) ==
    IF S = {} THEN <<>>
    ELSE LET m == CHOOSE x \in S : \A y \in S \ {x} : StrLess(x, y)
         IN  <<m>> \o Sorted(S \ {m})

\* str.upper(), used to write differently-cased inputs.
Upper(s) ==
    [i \in 1..Len(s) |->
        IF \E j \in 1..Len(LowerChars) : LowerChars[j] = s[i]
        THEN UpperChars[CHOOSE j \in 1..Len(LowerChars) : LowerChars[j] = s[i]]
        ELSE s[i]]

\* ------------------------------------------------------ pure functions

\* Faulty variant: the mode is trimmed but not lowercased.
instructions_enabled_no_lower(config) ==
    LET raw  == config.embedding_instruction_mode
        mode == Strip(IF Truthy(raw) THEN raw ELSE <<"o","f","f">>)
    IN  mode \notin { <<>>, <<"o","f","f">>, <<"f","a","l","s","e">>, <<"0">>,
                      <<"d","i","s","a","b","l","e","d">>, <<"n","o","n","e">> }

\* _instructions_enabled(): mode = (config.embedding_instruction_mode or
\* "off").strip().lower(); enabled iff mode is not one of the six values.
DisabledModes ==
    { <<>>, <<"o","f","f">>, <<"f","a","l","s","e">>, <<"0">>,
      <<"d","i","s","a","b","l","e","d">>, <<"n","o","n","e">> }

instructions_enabled(config) ==
    LET raw  == config.embedding_instruction_mode
        mode == Lower(Strip(IF Truthy(raw) THEN raw ELSE <<"o","f","f">>))
    IN  mode \notin DisabledModes

\* Faulty variant: the argument is lowercased but not trimmed.
normalize_no_strip(instruction_type) ==
    IF ~Truthy(instruction_type) THEN None
    ELSE IF Lower(instruction_type) \in DOMAIN INSTRUCTION_CONFIG
         THEN Lower(instruction_type) ELSE None

\* normalize_instruction_type(instruction_type)
normalize_instruction_type(instruction_type) ==
    IF ~Truthy(instruction_type) THEN None
    ELSE LET lowered == Lower(Strip(instruction_type))
         IN  IF lowered \in DOMAIN INSTRUCTION_CONFIG THEN lowered ELSE None

\* ContextVar.get() in a Context whose stored value is v: the default
\* (None) when the variable has no value there.
ContextVarGet(v) ==
    IF v = MISSING THEN None ELSE v

\* Faulty variant: any explicit type given, recognized or not, decides the result,
\* so an unrecognized one masks the ambient value and the default.
get_active_explicit_masks(explicit_type, v, config) ==
    LET ctx_value == ContextVarGet(v)
    IN  IF Truthy(explicit_type)
        THEN normalize_instruction_type(explicit_type)
        ELSE IF Truthy(ctx_value) THEN ctx_value
        ELSE normalize_instruction_type(config.embedding_instruction_default)

\* get_active_instruction_type(explicit_type), run in a Context whose
\* stored value is v, under configuration config.
get_active_instruction_type(explicit_type, v, config) ==
    LET normalized == normalize_instruction_type(explicit_type)
        ctx_value  == ContextVarGet(v)
    IN  IF Truthy(normalized) THEN normalized
        ELSE IF Truthy(ctx_value) THEN ctx_value
        ELSE normalize_instruction_type(config.embedding_instruction_default)

\* Faulty variant: a space is put between the prefix and a non-empty text.
ApplyPrefixSeparated(prefix, texts) ==
    [i \in 1..Len(texts) |->
        IF texts[i] # <<>> THEN prefix \o <<" ">> \o texts[i] ELSE prefix]

\* [f"{prefix}{text}" if text else prefix for text in texts]
ApplyPrefix(prefix, texts) ==
    [i \in 1..Len(texts) |->
        IF texts[i] # <<>> THEN prefix \o texts[i] ELSE prefix]

\* Faulty variant: the formatting function itself returns the input when the
\* mode is disabled.
format_checks_enabled(texts, role, instruction_type, v, config) ==
    LET instruction == get_active_instruction_type(instruction_type, v, config)
    IN  IF ~instructions_enabled(config) THEN texts
        ELSE IF ~Truthy(instruction) THEN texts
        ELSE ApplyPrefix(IF role = "query"
                         THEN INSTRUCTION_CONFIG[instruction].query
                         ELSE INSTRUCTION_CONFIG[instruction].passage, texts)

\* _format_with_instruction(texts, role, instruction_type)
format_with_instruction(texts, role, instruction_type, v, config) ==
    LET instruction == get_active_instruction_type(instruction_type, v, config)
    IN  IF ~Truthy(instruction) THEN texts
        ELSE IF instruction \notin DOMAIN INSTRUCTION_CONFIG THEN texts
        ELSE LET template == INSTRUCTION_CONFIG[instruction]
                 prefix   == IF role = "query" THEN template.query
                             ELSE template.passage
             IN  ApplyPrefix(prefix, texts)

\* Faulty variant: the wrapper formats without looking at the mode.
prepare_query_unchecked(texts, instruction_type, v, config) ==
    LET instruction == get_active_instruction_type(instruction_type, v, config)
    IN  IF ~Truthy(instruction) THEN texts
        ELSE ApplyPrefix(INSTRUCTION_CONFIG[instruction].query, texts)

\* prepare_query_texts(texts, instruction_type)
prepare_query_texts(texts, instruction_type, v, config) ==
    IF ~instructions_enabled(config) THEN texts
    ELSE format_with_instruction(texts, "query", instruction_type, v, config)

\* prepare_passage_texts(texts, instruction_type)
prepare_passage_texts(texts, instruction_type, v, config) ==
    IF ~instructions_enabled(config) THEN texts
    ELSE format_with_instruction(texts, "passage", instruction_type, v, config)

\* list_instruction_types()
list_instruction_types ==
    Sorted(DOMAIN INSTRUCTION_CONFIG)

\* ------------------------------------------------------------- bounds

\* Tokens ContextVar.set() hands out in one behaviour.
MaxTokens == 2

\* Nesting depth of `with instruction_scope(...)` blocks in one task.
MaxScopeDepth == 1

\* Two tasks, each running in its own contextvars Context: "t1" exists
\* from the start, "t2" is started independently or spawned by "t1".
Tasks ==
    {"t1", "t2"}

\* parent[t] of a task nothing spawned, and `task` of no call.
NoTask ==
    "none"

\* Arguments passed as instruction_type: None, "", a padded upper-case
\* key, a canonical key, an unrecognized name.
InstructionInputs ==
    { None, <<>>, <<" ","Q","A","\n">>, Key_code2nl,
      <<"b","o","g","u","s">> }

\* Values of config.embedding_instruction_mode: unset, padded "OFF",
\* and an enabling value.
ModeInputs ==
    { None, <<" ","O","F","F","\n">>, <<"o","n">> }

\* Values of config.embedding_instruction_default.
DefaultInputs ==
    { None, <<"Q","A"," ">>, <<"b","o","g","u","s">> }

\* Mode values that disable instructions: unset, empty, blank, and the
\* five words in several spellings.
DisabledModeInputs ==
    { None, <<>>, <<" "," ">>, <<"o","f","f">>, <<" ","O","F","F","\n">>,
      <<"F","a","l","s","e">>, <<"0">>, <<"\t","0"," ">>,
      <<"D","i","s","a","b","l","e","d">>, <<"N","O","N","E">>,
      <<"n","o","n","e">> }

\* Mode values that enable instructions: everything else.
EnabledModeInputs ==
    { <<"o","n">>, <<"t","r","u","e">>, <<"1">>, <<"0","0">>,
      <<"a","u","t","o">>, <<"o","f","f","f">>, <<"o"," ","f","f">>,
      <<"n","o">>, <<"e","n","a","b","l","e","d">> }

ModeStrings ==
    DisabledModeInputs \cup EnabledModeInputs

\* Spellings of the key k: as is, upper case, padded, padded upper case.
KeyVariants(k) ==
    { k, Upper(k), <<" ">> \o k, k \o <<"\n">>,
      <<"\t", " ">> \o Upper(k) \o <<" ">>,
      <<Upper(k)[1]>> \o Tail(k) }

\* Arguments that are no spelling of any key.
UnrecognizedInputs ==
    { None, <<>>, <<" ">>, <<" ","\t","\n">>, <<"b","o","g","u","s">>,
      <<"q"," ","a">>, <<"q">>, <<"q","a","2">>, <<"q","a","a">>,
      <<"n","l","2","c","o","d","e","2">>, <<"N","o","n","e">>,
      <<"c","o","d","e","2","_","n","l">> }

TypeStrings ==
    UnrecognizedInputs \cup UNION { KeyVariants(k) : k \in InstructionKeys }

\* Batches of texts handed to the formatting functions.
TextInputs ==
    { <<<<"x">>, <<"y">>>>, <<<<>>, <<"h","e","l","l","o">>>> }

\* --------------------------------------------------------------- state

VARIABLES
    ctx,        \* ctx[t]: the value of _instruction_type_ctx in task t's
                \* Context, MISSING when it has none
    tokens,     \* the Tokens created so far, by id (position)
    handles,    \* ids of the Tokens push_instruction_type returned to callers
    scopes,     \* scopes[t]: the open instruction_scope blocks of task t,
                \* innermost last; each holds its local `token`
    exc,        \* exc[t]: the exception unwinding task t's scopes, or "NoExc"
    started,    \* the tasks that exist
    parent,     \* parent[t]: the task t was spawned from, or NoTask
    base,       \* base[t]: the ambient value task t started with
    nested,     \* nested[t]: every successful pop in t so far popped the
                \* most recent un-popped handle of t
    config,     \* what get_embedding_config() returns
    last        \* the most recent call: its arguments and its outcome

vars ==
    <<ctx, tokens, handles, scopes, exc, started, parent, base, nested,
      config, last>>

\* ------------------------------------------------------- ContextVar

\* Faulty variant: the value lives in one cell shared by every task.
ContextVarSetShared(c, toks, t, value) ==
    [ctx    |-> [u \in DOMAIN c |-> value],
     tokens |-> Append(toks, [context |-> t, old_value |-> c[t],
                              used |-> FALSE, pushed |-> value]),
     token  |-> Len(toks) + 1]

\* ContextVar.set(value) in task t: store the value in t's Context and
\* return a Token remembering the value it replaces.  The field `pushed`
\* is history (the value stored), not a field of Python's Token.
ContextVarSet(c, toks, t, value) ==
    [ctx    |-> [c EXCEPT ![t] = value],
     tokens |-> Append(toks, [context |-> t, old_value |-> c[t],
                              used |-> FALSE, pushed |-> value]),
     token  |-> Len(toks) + 1]

\* Faulty variant: reset clears the variable instead of putting the remembered
\* value back.
ContextVarResetClears(c, toks, t, token) ==
    IF toks[token].used
    THEN [ctx |-> c, tokens |-> toks, raised |-> "RuntimeError"]
    ELSE IF toks[token].context # t
    THEN [ctx |-> c, tokens |-> toks, raised |-> "ValueError"]
    ELSE [ctx    |-> [c EXCEPT ![t] = MISSING],
          tokens |-> [toks EXCEPT ![token].used = TRUE],
          raised |-> "NoExc"]

\* Faulty variant: a Token that is used or foreign is ignored silently.
ContextVarResetLenient(c, toks, t, token) ==
    IF toks[token].used \/ toks[token].context # t
    THEN [ctx |-> c, tokens |-> toks, raised |-> "NoExc"]
    ELSE [ctx    |-> [c EXCEPT ![t] = toks[token].old_value],
          tokens |-> [toks EXCEPT ![token].used = TRUE],
          raised |-> "NoExc"]

\* Faulty variant: reset behaves as a stack pop and leaves the value of the
\* most recent push of the task that is still un-popped.
ContextVarResetStack(c, toks, t, token) ==
    IF toks[token].used
    THEN [ctx |-> c, tokens |-> toks, raised |-> "RuntimeError"]
    ELSE IF toks[token].context # t
    THEN [ctx |-> c, tokens |-> toks, raised |-> "ValueError"]
    ELSE LET open == { i \in 1..Len(toks) :
                         i # token /\ ~toks[i].used /\ toks[i].context = t }
         IN  [ctx    |-> [c EXCEPT ![t] =
                            IF open = {} THEN MISSING
                            ELSE toks[CHOOSE i \in open :
                                         \A j \in open : j <= i].pushed],
              tokens |-> [toks EXCEPT ![token].used = TRUE],
              raised |-> "NoExc"]

\* ContextVar.reset(token) in task t: RuntimeError for a Token used
\* before, ValueError for a Token made in another Context; otherwise the
\* value the Token remembers is put back (the variable is unset again when
\* that is MISSING) and the Token is marked used.
ContextVarReset(c, toks, t, token) ==
    IF toks[token].used
    THEN [ctx |-> c, tokens |-> toks, raised |-> "RuntimeError"]
    ELSE IF toks[token].context # t
    THEN [ctx |-> c, tokens |-> toks, raised |-> "ValueError"]
    ELSE [ctx    |-> [c EXCEPT ![t] = toks[token].old_value],
          tokens |-> [toks EXCEPT ![token].used = TRUE],
          raised |-> "NoExc"]

\* Faulty variant: a spawned task starts with an empty Context.
CopyContextEmpty(c, p) ==
    MISSING

\* A new task's Context is a copy of its creator's (copy_context()).
CopyContext(c, p) ==
    c[p]

\* Faulty variant: the argument is stored as given once it is known to be valid.
push_unnormalized(c, toks, t, instruction_type) ==
    IF normalize_instruction_type(instruction_type) = None
    THEN [ctx |-> c, tokens |-> toks, token |-> 0]
    ELSE ContextVarSet(c, toks, t, instruction_type)

\* Faulty variant: an argument that normalizes to None clears the ambient
\* value instead of leaving it.
push_none_clears(c, toks, t, instruction_type) ==
    IF normalize_instruction_type(instruction_type) = None
    THEN [ctx |-> [c EXCEPT ![t] = MISSING], tokens |-> toks, token |-> 0]
    ELSE ContextVarSet(c, toks, t,
                       normalize_instruction_type(instruction_type))

\* push_instruction_type(instruction_type) in task t; token 0 is None.
push_instruction_type(c, toks, t, instruction_type) ==
    LET normalized == normalize_instruction_type(instruction_type)
    IN  IF normalized = None
        THEN [ctx |-> c, tokens |-> toks, token |-> 0]
        ELSE ContextVarSet(c, toks, t, normalized)

\* Faulty variant: a pop with no handle clears the ambient value.
pop_none_clears(c, toks, t, token) ==
    IF token # 0
    THEN ContextVarReset(c, toks, t, token)
    ELSE [ctx |-> [c EXCEPT ![t] = MISSING], tokens |-> toks,
          raised |-> "NoExc"]

\* pop_instruction_type(token) in task t; token 0 is None.
pop_instruction_type(c, toks, t, token) ==
    IF token # 0
    THEN ContextVarReset(c, toks, t, token)
    ELSE [ctx |-> c, tokens |-> toks, raised |-> "NoExc"]

\* Faulty variant: the pop follows the body instead of sitting in a finally
\* clause, so it is skipped when the body raises.
instruction_scope_no_finally(c, toks, t, token, body_raised) ==
    IF body_raised
    THEN [ctx |-> c, tokens |-> toks, raised |-> "NoExc"]
    ELSE pop_instruction_type(c, toks, t, token)

\* The `finally` clause of instruction_scope: pop the block's token on
\* every exit path, whether or not the body raised.
instruction_scope_finally(c, toks, t, token, body_raised) ==
    pop_instruction_type(c, toks, t, token)

\* The un-popped handles of task t, oldest first.
RECURSIVE Unpopped(_, _)
Unpopped(toks, t) ==
    IF toks = <<>> THEN <<>>
    ELSE LET n    == Len(toks)
             rest == Unpopped(SubSeq(toks, 1, n - 1), t)
         IN  IF toks[n].context = t /\ ~toks[n].used
             THEN Append(rest, n) ELSE rest

\* ---------------------------------------------------------- the calls

NoCall ==
    [op |-> "none", task |-> NoTask, arg |-> None, role |-> "none",
     texts |-> <<>>, out |-> <<>>, result |-> None, handle |-> 0,
     raised |-> "NoExc", body_raised |-> FALSE, pre_used |-> FALSE,
     enabled |-> FALSE, off_handle |-> 0,
     frame_pre |-> MISSING, pre |-> [t \in Tasks |-> MISSING]]

Call(op, t) ==
    [NoCall EXCEPT !.op = op, !.task = t, !.pre = ctx,
                   !.off_handle = last.off_handle]

Running(t) ==
    t \in started /\ exc[t] = "NoExc"

Init ==
    /\ ctx = [t \in Tasks |-> MISSING]
    /\ tokens = <<>>
    /\ handles = {}
    /\ scopes = [t \in Tasks |-> <<>>]
    /\ exc = [t \in Tasks |-> "NoExc"]
    /\ started = {"t1"}
    /\ parent = [t \in Tasks |-> NoTask]
    /\ base = [t \in Tasks |-> None]
    /\ nested = [t \in Tasks |-> TRUE]
    /\ config = [embedding_instruction_mode |-> None,
                 embedding_instruction_default |-> None]
    /\ last = NoCall

\* An independent task starts with an empty Context.
StartTask(t) ==
    /\ t \notin started
    /\ started' = started \cup {t}
    /\ ctx' = [ctx EXCEPT ![t] = MISSING]
    /\ parent' = [parent EXCEPT ![t] = NoTask]
    /\ base' = [base EXCEPT ![t] = None]
    /\ last' = Call("start", t)
    /\ UNCHANGED <<tokens, handles, scopes, exc, nested, config>>

\* Task p spawns child task t, which runs in a copy of p's Context.
SpawnTask(p, t) ==
    /\ Running(p)
    /\ t \notin started
    /\ started' = started \cup {t}
    /\ ctx' = [ctx EXCEPT ![t] = CopyContext(ctx, p)]
    /\ parent' = [parent EXCEPT ![t] = p]
    /\ base' = [base EXCEPT ![t] = ContextVarGet(CopyContext(ctx, p))]
    /\ last' = Call("spawn", t)
    /\ UNCHANGED <<tokens, handles, scopes, exc, nested, config>>

\* The external configuration changes between calls.
SetConfig(mode, default) ==
    /\ config' = [embedding_instruction_mode |-> mode,
                  embedding_instruction_default |-> default]
    /\ config' # config
    /\ last' = Call("set_config", NoTask)
    /\ UNCHANGED <<ctx, tokens, handles, scopes, exc, started, parent, base,
                   nested>>

\* The most recent handle that a push returned while instructions were
\* disabled, 0 when there is none: the handle just returned if the mode is
\* disabled now, the one on record otherwise.
PushedWhileOff(token) ==
    IF token # 0 /\ ~instructions_enabled(config) THEN token
    ELSE last.off_handle

\* Faulty variant: a push made while instructions are disabled does nothing.
PushWhenEnabled(t, instruction_type) ==
    /\ Running(t)
    /\ normalize_instruction_type(instruction_type) # None
          => Len(tokens) < MaxTokens
    /\ LET r == IF instructions_enabled(config)
                THEN push_instruction_type(ctx, tokens, t, instruction_type)
                ELSE [ctx |-> ctx, tokens |-> tokens, token |-> 0]
       IN  /\ ctx' = r.ctx
           /\ tokens' = r.tokens
           /\ handles' = IF r.token # 0 THEN handles \cup {r.token}
                         ELSE handles
           /\ last' = [Call("push", t) EXCEPT
                          !.arg = instruction_type, !.handle = r.token,
                          !.off_handle = PushedWhileOff(r.token)]
    /\ UNCHANGED <<scopes, exc, started, parent, base, nested, config>>

\* token = push_instruction_type(instruction_type), called by task t.
Push(t, instruction_type) ==
    /\ Running(t)
    /\ normalize_instruction_type(instruction_type) # None
          => Len(tokens) < MaxTokens
    /\ LET r == push_instruction_type(ctx, tokens, t, instruction_type)
       IN  /\ ctx' = r.ctx
           /\ tokens' = r.tokens
           /\ handles' = IF r.token # 0 THEN handles \cup {r.token}
                         ELSE handles
           /\ last' = [Call("push", t) EXCEPT
                          !.arg = instruction_type, !.handle = r.token,
                          !.off_handle = PushedWhileOff(r.token)]
    /\ UNCHANGED <<scopes, exc, started, parent, base, nested, config>>

\* pop_instruction_type(token), called by task t with a handle some
\* caller holds, or with None.
Pop(t, token) ==
    /\ Running(t)
    /\ token \in handles \cup {0}
    /\ LET r   == pop_instruction_type(ctx, tokens, t, token)
           top == Unpopped(tokens, t)
       IN  /\ ctx' = r.ctx
           /\ tokens' = r.tokens
           /\ nested' = IF token # 0 /\ r.raised = "NoExc"
                           /\ (top = <<>> \/ top[Len(top)] # token)
                        THEN [nested EXCEPT ![t] = FALSE]
                        ELSE nested
           /\ last' = [Call("pop", t) EXCEPT
                          !.handle = token, !.raised = r.raised,
                          !.pre_used = (token # 0 /\ tokens[token].used)]
    /\ UNCHANGED <<handles, scopes, exc, started, parent, base, config>>

\* Entry of `with instruction_scope(instruction_type):` in task t: the
\* block keeps the token push_instruction_type returns in a local.
ScopeEnter(t, instruction_type) ==
    /\ Running(t)
    /\ Len(scopes[t]) < MaxScopeDepth
    /\ normalize_instruction_type(instruction_type) # None
          => Len(tokens) < MaxTokens
    /\ LET r == push_instruction_type(ctx, tokens, t, instruction_type)
       IN  /\ ctx' = r.ctx
           /\ tokens' = r.tokens
           /\ scopes' = [scopes EXCEPT ![t] =
                            Append(@, [token |-> r.token,
                                       pre   |-> ctx[t]])]
           /\ last' = [Call("scope_enter", t) EXCEPT
                          !.arg = instruction_type, !.handle = r.token,
                          !.off_handle = PushedWhileOff(r.token)]
    /\ UNCHANGED <<handles, exc, started, parent, base, nested, config>>

\* The body of task t's innermost open scope raises.
BodyRaise(t) ==
    /\ Running(t)
    /\ scopes[t] # <<>>
    /\ exc' = [exc EXCEPT ![t] = "BodyError"]
    /\ last' = [Call("raise", t) EXCEPT !.raised = "BodyError"]
    /\ UNCHANGED <<ctx, tokens, handles, scopes, started, parent, base,
                   nested, config>>

\* Faulty variant: the block swallows the exception of its body.
ScopeExitSwallows(t, caught) ==
    /\ t \in started
    /\ scopes[t] # <<>>
    /\ LET n     == Len(scopes[t])
           frame == scopes[t][n]
           body_raised == exc[t] # "NoExc"
           r     == instruction_scope_finally(ctx, tokens, t, frame.token,
                                              body_raised)
           e     == r.raised
           top   == Unpopped(tokens, t)
       IN  /\ ctx' = r.ctx
           /\ tokens' = r.tokens
           /\ scopes' = [scopes EXCEPT ![t] = SubSeq(@, 1, n - 1)]
           /\ exc' = [exc EXCEPT ![t] =
                         IF e # "NoExc" /\ n > 1 /\ ~caught THEN e
                         ELSE "NoExc"]
           /\ nested' = IF r.tokens # tokens
                           /\ (top = <<>> \/ top[Len(top)] # frame.token)
                        THEN [nested EXCEPT ![t] = FALSE]
                        ELSE nested
           /\ last' = [Call("scope_exit", t) EXCEPT
                          !.handle = frame.token, !.frame_pre = frame.pre,
                          !.body_raised = body_raised, !.raised = e]
    /\ UNCHANGED <<handles, started, parent, base, config>>

\* Exit of task t's innermost instruction_scope block, by the body
\* finishing or by the exception unwinding it: the finally clause runs,
\* then the exception (the body's, or the one the finally clause raised)
\* goes on to the caller, which is the enclosing block's body if any.
ScopeExit(t, caught) ==
    /\ t \in started
    /\ scopes[t] # <<>>
    /\ LET n     == Len(scopes[t])
           frame == scopes[t][n]
           body_raised == exc[t] # "NoExc"
           r     == instruction_scope_finally(ctx, tokens, t, frame.token,
                                              body_raised)
           e     == IF r.raised # "NoExc" THEN r.raised ELSE exc[t]
           top   == Unpopped(tokens, t)
       IN  /\ ctx' = r.ctx
           /\ tokens' = r.tokens
           /\ scopes' = [scopes EXCEPT ![t] = SubSeq(@, 1, n - 1)]
           /\ exc' = [exc EXCEPT ![t] =
                         IF e # "NoExc" /\ n > 1 /\ ~caught THEN e
                         ELSE "NoExc"]
           /\ nested' = IF r.tokens # tokens
                           /\ (top = <<>> \/ top[Len(top)] # frame.token)
                        THEN [nested EXCEPT ![t] = FALSE]
                        ELSE nested
           /\ last' = [Call("scope_exit", t) EXCEPT
                          !.handle = frame.token, !.frame_pre = frame.pre,
                          !.body_raised = body_raised, !.raised = e]
    /\ UNCHANGED <<handles, started, parent, base, config>>

\* Faulty variant: a recognized explicit type is stored as the ambient value.
GetActiveStores(t, explicit_type) ==
    /\ Running(t)
    /\ ctx' = IF normalize_instruction_type(explicit_type) # None
              THEN [ctx EXCEPT ![t] =
                       normalize_instruction_type(explicit_type)]
              ELSE ctx
    /\ last' = [Call("get_active", t) EXCEPT
                   !.arg = explicit_type,
                   !.result = get_active_instruction_type(explicit_type,
                                                          ctx[t], config)]
    /\ UNCHANGED <<tokens, handles, scopes, exc, started, parent, base,
                   nested, config>>

\* get_active_instruction_type(explicit_type), called by task t.
GetActive(t, explicit_type) ==
    /\ Running(t)
    /\ last' = [Call("get_active", t) EXCEPT
                   !.arg = explicit_type,
                   !.result = get_active_instruction_type(explicit_type,
                                                          ctx[t], config)]
    /\ UNCHANGED <<ctx, tokens, handles, scopes, exc, started, parent, base,
                   nested, config>>

\* _format_with_instruction(texts, role, instruction_type), called
\* directly by task t.
FormatWithInstruction(t, texts, role, instruction_type) ==
    /\ Running(t)
    /\ last' = [Call("format", t) EXCEPT
                   !.arg = instruction_type, !.role = role, !.texts = texts,
                   !.out = format_with_instruction(texts, role,
                               instruction_type, ctx[t], config)]
    /\ UNCHANGED <<ctx, tokens, handles, scopes, exc, started, parent, base,
                   nested, config>>

\* prepare_query_texts(texts, instruction_type), called by task t.
PrepareQueryTexts(t, texts, instruction_type) ==
    /\ Running(t)
    /\ last' = [Call("prepare", t) EXCEPT
                   !.arg = instruction_type, !.role = "query",
                   !.texts = texts,
                   !.out = prepare_query_texts(texts, instruction_type,
                                               ctx[t], config)]
    /\ UNCHANGED <<ctx, tokens, handles, scopes, exc, started, parent, base,
                   nested, config>>

\* prepare_passage_texts(texts, instruction_type), called by task t.
PreparePassageTexts(t, texts, instruction_type) ==
    /\ Running(t)
    /\ last' = [Call("prepare", t) EXCEPT
                   !.arg = instruction_type, !.role = "passage",
                   !.texts = texts,
                   !.out = prepare_passage_texts(texts, instruction_type,
                                                 ctx[t], config)]
    /\ UNCHANGED <<ctx, tokens, handles, scopes, exc, started, parent, base,
                   nested, config>>

\* _instructions_enabled(), called by task t.
InstructionsEnabled(t) ==
    /\ Running(t)
    /\ last' = [Call("enabled", t) EXCEPT
                   !.enabled = instructions_enabled(config)]
    /\ UNCHANGED <<ctx, tokens, handles, scopes, exc, started, parent, base,
                   nested, config>>

\* normalize_instruction_type(instruction_type), called by task t.
Normalize(t, instruction_type) ==
    /\ Running(t)
    /\ last' = [Call("normalize", t) EXCEPT
                   !.arg = instruction_type,
                   !.result = normalize_instruction_type(instruction_type)]
    /\ UNCHANGED <<ctx, tokens, handles, scopes, exc, started, parent, base,
                   nested, config>>

\* list_instruction_types(), called by task t.
ListInstructionTypes(t) ==
    /\ Running(t)
    /\ last' = [Call("list", t) EXCEPT !.out = list_instruction_types]
    /\ UNCHANGED <<ctx, tokens, handles, scopes, exc, started, parent, base,
                   nested, config>>

\* One task's scopes: pushes, pops and instruction_scope blocks whose
\* bodies push, pop, open further blocks and raise.
NextScope ==
    \/ \E t \in Tasks, a \in InstructionInputs : Push(t, a)
    \/ \E t \in Tasks, h \in 0..MaxTokens : Pop(t, h)
    \/ \E t \in Tasks, a \in InstructionInputs : ScopeEnter(t, a)
    \/ \E t \in Tasks : BodyRaise(t)
    \/ \E t \in Tasks, c \in BOOLEAN : ScopeExit(t, c)

SpecScope ==
    Init /\ [][NextScope]_vars

\* Concurrent tasks, independent or spawned from one another, each
\* pushing and popping.
NextTasks ==
    \/ \E t \in Tasks : StartTask(t)
    \/ \E p, t \in Tasks : SpawnTask(p, t)
    \/ \E t \in Tasks, a \in InstructionInputs : Push(t, a)
    \/ \E t \in Tasks, h \in 0..MaxTokens : Pop(t, h)

SpecTasks ==
    Init /\ [][NextTasks]_vars

\* The text preparation of one task: the formatting functions applied to
\* every input, under every configuration and every ambient value the
\* task's pushes produce.
NextText ==
    \/ \E m \in ModeInputs, d \in DefaultInputs : SetConfig(m, d)
    \/ \E t \in Tasks, a \in InstructionInputs : Push(t, a)
    \/ \E t \in Tasks, a \in InstructionInputs : GetActive(t, a)
    \/ \E t \in Tasks, x \in TextInputs, r \in {"query", "passage"},
          a \in InstructionInputs : FormatWithInstruction(t, x, r, a)
    \/ \E t \in Tasks, x \in TextInputs, a \in InstructionInputs :
          PrepareQueryTexts(t, x, a)
    \/ \E t \in Tasks, x \in TextInputs, a \in InstructionInputs :
          PreparePassageTexts(t, x, a)
    \/ \E t \in Tasks, a \in InstructionInputs : Normalize(t, a)
    \/ \E t \in Tasks : ListInstructionTypes(t)

SpecText ==
    Init /\ [][NextText]_vars

\* Modes and types for scopes under a changing mode.
SwitchModeInputs ==
    { None, <<"o","n">> }

SwitchTypeInputs ==
    { <<" ","Q","A","\n">>, <<"b","o","g","u","s">> }

\* Scopes while the mode is switched on and off between the calls.
NextMode ==
    \/ \E m \in SwitchModeInputs : SetConfig(m, None)
    \/ \E t \in Tasks, a \in SwitchTypeInputs : Push(t, a)
    \/ \E t \in Tasks, h \in handles \cup {0} : Pop(t, h)
    \/ \E t \in Tasks, a \in SwitchTypeInputs : ScopeEnter(t, a)
    \/ \E t \in Tasks, caught \in BOOLEAN : ScopeExit(t, caught)
    \/ \E t \in Tasks, x \in TextInputs : PrepareQueryTexts(t, x, None)
    \/ \E t \in Tasks, x \in TextInputs : PreparePassageTexts(t, x, None)

SpecMode ==
    Init /\ [][NextMode]_vars

\* The functions of the configuration and of their argument alone, applied
\* to every mode and every spelling of an instruction type.
NextPure ==
    \/ \E m \in ModeStrings, d \in DefaultInputs : SetConfig(m, d)
    \/ \E t \in Tasks : InstructionsEnabled(t)
    \/ \E t \in Tasks, a \in TypeStrings : Normalize(t, a)
    \/ \E t \in Tasks : ListInstructionTypes(t)

SpecPure ==
    Init /\ [][NextPure]_vars

\* ------------------------------------------------------------ claims

\* The prefix of instruction type k for a role.
PrefixOf(k, role) ==
    IF role = "query" THEN INSTRUCTION_CONFIG[k].query
    ELSE INSTRUCTION_CONFIG[k].passage

\* The instruction type the last call resolved, from its explicit
\* argument, the caller's ambient value and the configured default.
Resolved ==
    get_active_instruction_type(last.arg, ctx[last.task], config)

\* C1: with the configured mode disabled, prepare_query_texts and
\* prepare_passage_texts return the input texts unchanged (same length,
\* order and values), whatever the explicit type, the ambient type and
\* the configured default are.
C1_DisabledPrepareReturnsInput ==
    (last.op = "prepare" /\ ~instructions_enabled(config))
        => /\ Len(last.out) = Len(last.texts)
           /\ \A i \in 1..Len(last.texts) : last.out[i] = last.texts[i]

\* C1 witness: prepare_query_texts called under the mode " OFF\n" with an
\* explicit recognized type, an ambient type and a recognized default.
C1_Witness ==
    /\ last.op = "prepare" /\ last.role = "query"
    /\ config.embedding_instruction_mode = <<" ","O","F","F","\n">>
    /\ config.embedding_instruction_default = <<"Q","A"," ">>
    /\ last.arg = <<" ","Q","A","\n">>
    /\ ctx[last.task] = Key_code2nl
    /\ last.texts = <<<<"x">>, <<"y">>>>
    /\ last.out = last.texts

\* C2 as claimed: _format_with_instruction, called directly, returns the
\* input texts unchanged whenever instructions are disabled.
C2_FormatDisabledReturnsInput ==
    (last.op = "format" /\ ~instructions_enabled(config))
        => last.out = last.texts

\* C2 amended: _format_with_instruction, called directly, does not look at
\* the mode; enabled or disabled, it prefixes every text whenever an
\* instruction type resolves and returns the input only when none does.
C2_FormatIgnoresMode ==
    last.op = "format"
        => IF Resolved \in InstructionKeys
           THEN /\ Len(last.out) = Len(last.texts)
                /\ \A i \in 1..Len(last.texts) :
                      last.out[i] = PrefixOf(Resolved, last.role) \o last.texts[i]
           ELSE last.out = last.texts

\* C2 witness: formatTexts(["x","y"], "query", "QA") under a disabled mode
\* returns both texts behind the qa query prefix.
C2_Witness ==
    /\ last.op = "format" /\ last.role = "query"
    /\ ~instructions_enabled(config)
    /\ last.arg = <<" ","Q","A","\n">>
    /\ last.texts = <<<<"x">>, <<"y">>>>
    /\ last.out = <<INSTRUCTION_CONFIG[Key_qa].query \o <<"x">>,
                    INSTRUCTION_CONFIG[Key_qa].query \o <<"y">>>>

\* C3: get_active_instruction_type(explicit) returns the normalized
\* explicit type when that is a recognized key, otherwise the ambient type
\* when one is set, otherwise the normalized configured default; and None
\* exactly when none of the three is a recognized key.
C3_ResolutionOrder ==
    last.op = "get_active"
        => LET e == normalize_instruction_type(last.arg)
               a == ContextVarGet(ctx[last.task])
               d == normalize_instruction_type(
                        config.embedding_instruction_default)
           IN  /\ e \in InstructionKeys => last.result = e
               /\ (e \notin InstructionKeys /\ a # None) => last.result = a
               /\ (e \notin InstructionKeys /\ a = None) => last.result = d
               /\ last.result = None
                     <=> (e \notin InstructionKeys /\ a = None
                          /\ d \notin InstructionKeys)

\* C3 witness: an unrecognized explicit type, an ambient type and a
\* different recognized default: the ambient type is returned.
C3_Witness ==
    /\ last.op = "get_active"
    /\ last.arg = <<"b","o","g","u","s">>
    /\ ctx[last.task] = Key_code2nl
    /\ config.embedding_instruction_default = <<"Q","A"," ">>
    /\ last.result = Key_code2nl

\* C10: with instructions enabled, prepare_query_texts uses the resolved
\* type's query prefix and prepare_passage_texts its passage prefix; the
\* result has the input's length and order, element i being the prefix
\* directly followed by texts[i], or the prefix alone for an empty
\* texts[i]; when no type resolves the input is returned unchanged.
C10_EnabledPrepareAppliesPrefix ==
    (last.op = "prepare" /\ instructions_enabled(config))
        => IF Resolved \in InstructionKeys
           THEN /\ Len(last.out) = Len(last.texts)
                /\ \A i \in 1..Len(last.texts) :
                      last.out[i] =
                         IF last.texts[i] = <<>>
                         THEN PrefixOf(Resolved, last.role)
                         ELSE PrefixOf(Resolved, last.role) \o last.texts[i]
           ELSE last.out = last.texts

\* C10 witness: prepare_passage_texts(["", "hello"]) with the ambient type
\* code2nl returns the passage prefix alone and the prefix before "hello".
C10_Witness ==
    /\ last.op = "prepare" /\ last.role = "passage"
    /\ instructions_enabled(config)
    /\ last.arg = None
    /\ ctx[last.task] = Key_code2nl
    /\ last.texts = <<<<>>, <<"h","e","l","l","o">>>>
    /\ last.out = <<INSTRUCTION_CONFIG[Key_code2nl].passage,
                    INSTRUCTION_CONFIG[Key_code2nl].passage
                        \o <<"h","e","l","l","o">>>>

\* The configurations get_embedding_config() can return.
ConfigInputs ==
    [embedding_instruction_mode : ModeInputs,
     embedding_instruction_default : DefaultInputs]

\* C4: when an instruction_scope block of a recognized type exits,
\* normally or by an exception, whatever its body pushed, popped or raised,
\* the task's ambient instruction type, and with it what
\* get_active_instruction_type() returns under any configuration, is what
\* it was just before the block was entered.
C4_ScopeExitRestores ==
    (last.op = "scope_exit" /\ last.handle # 0)
        => /\ ContextVarGet(ctx[last.task]) = ContextVarGet(last.frame_pre)
           /\ \A cf \in ConfigInputs :
                 get_active_instruction_type(None, ctx[last.task], cf)
                    = get_active_instruction_type(None, last.frame_pre, cf)

\* C4 witness: a block of a recognized type left by the body's exception
\* after the body pushed a type it never popped; the exit changed the
\* ambient value.
C4_Witness ==
    /\ last.op = "scope_exit" /\ last.handle # 0
    /\ last.body_raised /\ last.raised = "BodyError"
    /\ last.pre[last.task] # ctx[last.task]
    /\ \E i \in (last.handle + 1)..Len(tokens) :
          tokens[i].context = last.task /\ ~tokens[i].used

\* C5: while a task's pushes and pops are well nested, the active type
\* with no explicit type is the type of the most recent push whose handle
\* is un-popped, and once every handle is popped the ambient value is the
\* one the task had before its first push.
C5_NestedPushPopIsStack ==
    \A t \in started :
        nested[t]
            => LET open == Unpopped(tokens, t)
               IN  IF open # <<>>
                   THEN \A cf \in ConfigInputs :
                           get_active_instruction_type(None, ctx[t], cf)
                              = tokens[open[Len(open)]].pushed
                   ELSE ContextVarGet(ctx[t]) = base[t]

\* C5 witness: after push "QA", push "code2nl", popping the inner handle
\* reverts the active type from code2nl to qa.
C5_Witness ==
    /\ last.op = "pop" /\ last.handle = 2 /\ last.raised = "NoExc"
    /\ nested[last.task]
    /\ last.pre[last.task] = Key_code2nl
    /\ ctx[last.task] = Key_qa
    /\ Unpopped(tokens, last.task) = <<1>>

\* C6: the ambient instruction type of every task is None or one of the
\* five canonical lowercase template keys, whatever was passed to
\* push_instruction_type, pop_instruction_type and instruction_scope.
C6_AmbientIsKeyOrNone ==
    \A t \in Tasks :
        /\ ctx[t] \in InstructionKeys \cup {MISSING}
        /\ ContextVarGet(ctx[t]) \in InstructionKeys \cup {None}

\* C6 witness: after push_instruction_type(" QA\n") the ambient value is
\* the canonical key "qa".
C6_Witness ==
    /\ last.op = "push" /\ last.arg = <<" ","Q","A","\n">>
    /\ ctx[last.task] = Key_qa

\* Tasks t and u are unrelated: neither was spawned from the other.
Unrelated(t, u) ==
    t # u /\ parent[t] # u /\ parent[u] # t

\* C7: a push or pop made by one task leaves the ambient instruction type
\* of every unrelated task, and so the result of that task's
\* get_active_instruction_type() and prepare_* calls, as it was.
C7_TaskIsolation ==
    last.op \in {"push", "pop"}
        => \A u \in started :
              Unrelated(last.task, u)
                 => /\ ctx[u] = last.pre[u]
                    /\ \A cf \in ConfigInputs, x \in TextInputs :
                          /\ get_active_instruction_type(None, ctx[u], cf)
                                = get_active_instruction_type(None,
                                                              last.pre[u], cf)
                          /\ prepare_query_texts(x, None, ctx[u], cf)
                                = prepare_query_texts(x, None,
                                                      last.pre[u], cf)

\* C7 witness: independent task t2 has just pushed code2nl while t1's
\* ambient type is qa, and t1 still sees qa.
C7_Witness ==
    /\ last.op = "push" /\ last.task = "t2" /\ last.handle # 0
    /\ parent["t2"] = NoTask
    /\ ctx["t1"] = Key_qa /\ ctx["t2"] = Key_code2nl

\* C8: a spawned task starts with its parent's ambient instruction type as
\* of the spawn, and afterwards a push or pop by the parent leaves the
\* child's value as it was and a push or pop by the child leaves the
\* parent's.
C8_SnapshotInheritance ==
    /\ last.op = "spawn"
          => ContextVarGet(ctx[last.task])
                = ContextVarGet(last.pre[parent[last.task]])
    /\ last.op \in {"push", "pop"}
          => \A u \in started :
                (parent[u] = last.task \/ parent[last.task] = u)
                   => ctx[u] = last.pre[u]

\* C8 witness: t2 was spawned while its parent's ambient type was qa; the
\* parent has since pushed code2nl and the child still sees qa.
C8_Witness ==
    /\ last.op = "push" /\ last.task = "t1"
    /\ parent["t2"] = "t1" /\ "t2" \in started
    /\ base["t2"] = Key_qa
    /\ ctx["t2"] = Key_qa /\ ctx["t1"] = Key_code2nl

\* C9 as claimed: pop_instruction_type never raises, and popping a handle
\* that was already popped or that comes from another task changes
\* nothing.
C9_PopNeverRaises ==
    last.op = "pop" => (last.raised = "NoExc" /\ (last.pre_used => ctx = last.pre))

\* C9 amended: pop_instruction_type is a silent no-op only when given no
\* handle; a handle already popped raises RuntimeError and an un-popped
\* handle of another task raises ValueError, and in both cases the ambient
\* instruction type of every task is left as it was.
C9_StalePopRaises ==
    last.op = "pop"
        => /\ last.handle = 0 => (last.raised = "NoExc" /\ ctx = last.pre)
           /\ (last.handle # 0 /\ last.pre_used)
                 => (last.raised = "RuntimeError" /\ ctx = last.pre)
           /\ (last.handle # 0 /\ ~last.pre_used
                  /\ tokens[last.handle].context # last.task)
                 => (last.raised = "ValueError" /\ ctx = last.pre)
           /\ (last.handle # 0 /\ ~last.pre_used
                  /\ tokens[last.handle].context = last.task)
                 => last.raised = "NoExc"

\* C9 witness: a task pops, a second time, a handle it has already popped.
C9_Witness ==
    /\ last.op = "pop" /\ last.handle # 0 /\ last.pre_used
    /\ tokens[last.handle].context = last.task
    /\ last.raised = "RuntimeError"

\* C11 as claimed: after push_instruction_type, or entry to
\* instruction_scope, with a type that normalizes to None,
\* get_active_instruction_type() returns the normalized configured
\* default, whatever the ambient value was before the call.
C11_NonePushFallsToDefault ==
    (last.op \in {"push", "scope_enter"}
        /\ normalize_instruction_type(last.arg) = None)
        => \A cf \in ConfigInputs :
              get_active_instruction_type(None, ctx[last.task], cf)
                 = normalize_instruction_type(
                       cf.embedding_instruction_default)

\* C11 amended: after such a call get_active_instruction_type() returns
\* the ambient value the task had before the call when one was set, and
\* the normalized configured default only when none was set.
C11_NonePushKeepsResolution ==
    (last.op \in {"push", "scope_enter"}
        /\ normalize_instruction_type(last.arg) = None)
        => \A cf \in ConfigInputs :
              get_active_instruction_type(None, ctx[last.task], cf)
                 = IF last.pre[last.task] # MISSING
                   THEN last.pre[last.task]
                   ELSE normalize_instruction_type(
                            cf.embedding_instruction_default)

\* C11 witness: push_instruction_type("bogus") while the ambient type is
\* qa; the ambient type is still qa.
C11_Witness ==
    /\ last.op = "push" /\ last.arg = <<"b","o","g","u","s">>
    /\ last.handle = 0
    /\ last.pre[last.task] = Key_qa
    /\ ctx[last.task] = Key_qa

\* C12: _instructions_enabled() is false exactly when the mode is unset or,
\* trimmed and lowercased, is one of "", "off", "false", "0", "disabled",
\* "none"; it is true for every other mode.
C12_EnabledExactlyOutsideDisabledSet ==
    last.op = "enabled"
        => LET m == config.embedding_instruction_mode
           IN  /\ ~last.enabled
                     <=> \/ m = None
                         \/ Lower(Strip(m)) \in
                               { <<>>, <<"o","f","f">>,
                                 <<"f","a","l","s","e">>, <<"0">>,
                                 <<"d","i","s","a","b","l","e","d">>,
                                 <<"n","o","n","e">> }
               /\ m \in DisabledModeInputs => ~last.enabled
               /\ m \in EnabledModeInputs => last.enabled

\* C12 witness: _instructions_enabled() called under the mode " OFF\n"
\* returns false.
C12_Witness ==
    /\ last.op = "enabled"
    /\ config.embedding_instruction_mode = <<" ","O","F","F","\n">>
    /\ ~last.enabled

\* C13: normalize_instruction_type returns the trimmed, lowercased input
\* exactly when that is one of the five template keys and None for every
\* other input; every spelling of a key maps to the key, and normalizing
\* the result again changes nothing.
C13_NormalizeCanonical ==
    last.op = "normalize"
        => LET x == last.arg
               recognized == x # None /\ Lower(Strip(x)) \in InstructionKeys
           IN  /\ recognized => last.result = Lower(Strip(x))
               /\ ~recognized => last.result = None
               /\ \A k \in InstructionKeys :
                     x \in KeyVariants(k) => last.result = k
               /\ x \in UnrecognizedInputs => last.result = None
               /\ normalize_instruction_type(last.result) = last.result

\* C13 witness: "\t CODE2COMPLETION " normalizes to "code2completion".
C13_Witness ==
    /\ last.op = "normalize"
    /\ last.arg = <<"\t", " ">> \o Upper(Key_code2completion) \o <<" ">>
    /\ last.result = Key_code2completion

\* C14: a pop of a handle that was not popped before, in the task that
\* pushed it, raises nothing and leaves as ambient value the value that was
\* ambient just before the push that returned the handle, in whatever
\* order the handles are popped and whatever was pushed or popped in
\* between.
C14_PopRestoresTokenValue ==
    (last.op = "pop" /\ last.handle # 0 /\ ~last.pre_used
        /\ tokens[last.handle].context = last.task)
        => /\ last.raised = "NoExc"
           /\ ctx[last.task] = tokens[last.handle].old_value

\* C14 witness: push "QA", push "code2nl", pop the outer handle, pop the
\* inner handle: the ambient value ends as qa, the outer push's type, and
\* not as the unset value from before the first push.
C14_Witness ==
    /\ last.op = "pop" /\ last.handle = 2 /\ last.raised = "NoExc"
    /\ tokens[1].used /\ tokens[1].pushed = Key_qa
    /\ tokens[1].old_value = MISSING
    /\ tokens[2].old_value = Key_qa /\ tokens[2].pushed = Key_code2nl
    /\ last.pre[last.task] = MISSING
    /\ ctx[last.task] = Key_qa
    /\ ~nested[last.task]

\* C15: a push or a scope entry whose argument normalizes to None returns
\* no handle and leaves every ambient value as it was; a pop with no
\* handle raises nothing and leaves every ambient value as it was; so does
\* the exit of a block that was entered with such an argument.
C15_NoHandleIsNoOp ==
    /\ (last.op \in {"push", "scope_enter"}
           /\ normalize_instruction_type(last.arg) = None)
          => (last.handle = 0 /\ ctx = last.pre)
    /\ (last.op = "pop" /\ last.handle = 0)
          => (last.raised = "NoExc" /\ ctx = last.pre)
    /\ (last.op = "scope_exit" /\ last.handle = 0)
          => ctx = last.pre

\* C15 witness: a block entered with an unrecognized type inside an ambient
\* code2nl is left normally and code2nl is still ambient.
C15_Witness ==
    /\ last.op = "scope_exit" /\ last.handle = 0 /\ ~last.body_raised
    /\ last.frame_pre = Key_code2nl
    /\ ctx[last.task] = Key_code2nl

\* C18 as stated: when the body of an instruction_scope block raises, the
\* exit of the block leaves the ambient value of before the block and the
\* body's exception goes on to the caller, whether the block's type was
\* recognized or not.
C18_BodyRaiseRestoresEntryValue ==
    (last.op = "scope_exit" /\ last.body_raised)
        => /\ last.raised = "BodyError"
           /\ ctx[last.task] = last.frame_pre

\* C18, amended: when the body of an instruction_scope block raises, the
\* exit pops the block's handle and the body's exception goes on to the
\* caller; the pop puts back the ambient value of before the block when
\* the block's type was recognized and changes nothing when it was not.
C18_BodyExceptionPropagates ==
    (last.op = "scope_exit" /\ last.body_raised)
        => /\ last.raised = "BodyError"
           /\ last.handle # 0 => ctx[last.task] = last.frame_pre
           /\ last.handle = 0 => ctx = last.pre

\* C18 witness: a block of an unrecognized type is entered with nothing
\* ambient, its body pushes qa and raises; the exception leaves the block
\* and qa stays ambient.
C18_Witness ==
    /\ last.op = "scope_exit" /\ last.handle = 0
    /\ last.body_raised /\ last.raised = "BodyError"
    /\ last.frame_pre = MISSING
    /\ ctx[last.task] = Key_qa
    /\ ctx = last.pre

\* C16: get_active_instruction_type, _format_with_instruction,
\* prepare_query_texts, prepare_passage_texts, normalize_instruction_type
\* and list_instruction_types leave the ambient instruction type of every
\* task as it was, whatever their arguments; the template table is
\* still the table of the five keys.
C16_ReadOpsKeepAmbient ==
    last.op \in {"get_active", "format", "prepare", "normalize", "list"}
        => /\ ctx = last.pre
           /\ last.op = "list"
                 => /\ Len(last.out) = Cardinality(InstructionKeys)
                    /\ { last.out[i] : i \in 1..Len(last.out) }
                          = InstructionKeys

\* C16 witness: prepare_query_texts with the explicit type code2nl while
\* qa is ambient uses code2nl's prefix and leaves qa ambient.
C16_Witness ==
    /\ last.op = "prepare" /\ last.role = "query"
    /\ last.arg = Key_code2nl
    /\ instructions_enabled(config)
    /\ last.out = ApplyPrefix(PrefixOf(Key_code2nl, "query"), last.texts)
    /\ last.pre[last.task] = Key_qa
    /\ ctx[last.task] = Key_qa

\* C17: with the mode switched on and off between the calls, a push or a
\* scope entry makes the normalized type ambient (or changes nothing when
\* there is none), a pop and a scope exit put back the value of before the
\* matching push, in no case depending on the mode; and prepare_* called
\* while instructions are enabled applies the type of a handle that was
\* pushed while they were disabled and is still un-popped and ambient.
C17_ScopesIndependentOfMode ==
    /\ last.op \in {"push", "scope_enter"}
          => ctx[last.task] =
                IF normalize_instruction_type(last.arg) = None
                THEN last.pre[last.task]
                ELSE normalize_instruction_type(last.arg)
    /\ (last.op = "pop" /\ last.handle # 0 /\ last.raised = "NoExc")
          => ctx[last.task] = tokens[last.handle].old_value
    /\ (last.op = "scope_exit" /\ last.handle # 0)
          => ctx[last.task] = last.frame_pre
    /\ (last.op = "prepare" /\ instructions_enabled(config)
           /\ last.arg = None /\ last.off_handle # 0
           /\ ~tokens[last.off_handle].used
           /\ ctx[last.task] = tokens[last.off_handle].pushed)
          => last.out = ApplyPrefix(PrefixOf(tokens[last.off_handle].pushed,
                                             last.role), last.texts)

\* C17 witness: " QA\n" is pushed while the mode is unset, the mode becomes
\* "on", and prepare_passage_texts with no explicit type puts qa's passage
\* prefix before every text.
C17_Witness ==
    /\ last.op = "prepare" /\ last.role = "passage" /\ last.arg = None
    /\ config.embedding_instruction_mode = <<"o","n">>
    /\ last.off_handle = 1 /\ ~tokens[1].used
    /\ tokens[1].pushed = Key_qa /\ ctx[last.task] = Key_qa
    /\ last.texts = <<<<"x">>, <<"y">>>>
    /\ last.out = ApplyPrefix(PrefixOf(Key_qa, "passage"), last.texts)
    /\ last.out # last.texts

====
